---- MODULE Spec2Model ----
(***************************************************************************)
(* rio_tiler.cbers: bounds, metadata and tile, each wrapped by             *)
(* cachetools.func.lru_cache(), with the per-call thread pools that        *)
(* metadata and tile use for their band workers.                           *)
(*                                                                         *)
(* A caller thread t runs one call at a time.  pc[t] is its position:      *)
(*   idle -> (cache hit) done                                              *)
(*   idle -> body -> [check ->] submit -> collect -> [cancel ->] shutdown  *)
(*        -> store -> done                                                 *)
(* and the pool's worker threads run from the first submission on;         *)
(* a raise at any step leads to done with outcome[t].kind = "raise".   *)
(***************************************************************************)
EXTENDS Integers, Sequences, FiniteSets, TLC

VARIABLES
    cache,      \* per decorated function: the LRU cache, least recent first
    asset,      \* per scene id: the version of the scene's rasters in the bucket
    utilsNames, \* the attribute names module rio_tiler.utils defines
    pc,         \* per caller thread: position in its call
    op,         \* per caller thread: the function called
    args,       \* per caller thread: the arguments as passed
    hit,        \* per caller thread: the wrapper served the call from the cache
    opened,     \* per caller thread: the raster addresses the call's main thread opened
    wgs,        \* per caller thread: wgs_bounds, once derived
    tasks,      \* per caller thread: the futures of the call's executor, in submission order
    out,        \* per caller thread: the results the result iterator has yielded
    sweep,      \* per caller thread: the future the iterator's finally clause cancels next
    pending,    \* per caller thread: the exception or value on its way out of the with block
    outcome,    \* per caller thread: what the call returned or raised
    ncalls,     \* number of calls made so far
    lastOk,     \* per function: key and value of the latest return under each key
    sameAsLast, \* per caller thread: FALSE once a return differed from lastOk
    seen,       \* per caller thread: the version the scene's rasters had when it called
    overtaken   \* per caller thread: a future of the call finished before an earlier one

vars == <<cache, asset, utilsNames, pc, op, args, hit, opened, wgs, tasks, out,
          sweep, pending, outcome, ncalls, lastOk, sameAsLast, seen, overtaken>>

----------------------------------------------------------------------------
(* Program constants.                                                      *)

\* cachetools.func.lru_cache(maxsize=128): the decorators are written lru_cache()
MaxSize == 128
\* futures.ThreadPoolExecutor(max_workers=2) in metadata
MetadataWorkers == 2
\* futures.ThreadPoolExecutor(max_workers=3) in tile
TileWorkers == 3
\* the keyword defaults of metadata and tile
DefaultPmin == 2
DefaultPmax == 98
DefaultTilesize == 256
DefaultRgb == <<"5", "6", "7">>
\* bands = ['5', '6', '6', '8'] in metadata
MetadataBands == <<"5", "6", "6", "8">>
CBERS_BUCKET == "s3://cbers-pds"
\* an argument the caller did not pass (the hash key then has no item for it)
Omitted == -1

Functions == {"bounds", "metadata", "tile"}
Threads == {"t1", "t2"}

----------------------------------------------------------------------------
(* Bounds of the model.                                                    *)

\* scene ids 1..NSweep are looked up by the sweeping caller of SpecLRU
NSweep == 130
\* versions an asset goes through (1 .. NVersions)
NVersions == 2
\* calls a behaviour of Spec makes
MaxCalls == 2
\* deepest zoom level of the tile pyramid
MaxZoom == 2

----------------------------------------------------------------------------
(* Values.                                                                 *)

NoBox == <<>>
NoOutcome == [kind |-> "none"]
Raise(e) == [kind |-> "raise", err |-> e]
Return(v) == [kind |-> "return", val |-> v]
Error(type, at) == [type |-> type, at |-> at]
\* the place of an error that is not about an asset
NoAddress == [prefix |-> <<"", <<"", "", 0>>>>, file |-> <<0, "">>]

\* rgb as the caller passes it: nothing, a bare string, or a tuple of strings
RgbOmitted == [kind |-> "omitted", s |-> "", tup |-> <<>>]
RgbStr(s) == [kind |-> "str", s |-> s, tup |-> <<>>]
RgbTuple(tup) == [kind |-> "tuple", s |-> "", tup |-> tup]

NoArgs == [sceneid |-> 0, x |-> 0, y |-> 0, z |-> 0, rgb |-> RgbOmitted,
           tilesize |-> Omitted, pmin |-> Omitted, pmax |-> Omitted]
BoundsArgs(s) == [NoArgs EXCEPT !.sceneid = s]
MetadataArgs(s, pmin, pmax) == [NoArgs EXCEPT !.sceneid = s, !.pmin = pmin, !.pmax = pmax]
TileArgs(s, x, y, z, rgb, tilesize) ==
    [NoArgs EXCEPT !.sceneid = s, !.x = x, !.y = y, !.z = z, !.rgb = rgb,
                   !.tilesize = tilesize]

----------------------------------------------------------------------------
(* cachetools: hashkey and LRUCache.                                       *)

\* keys.hashkey(*args, **kwargs): the arguments as passed, before the function
\* body binds defaults or coerces anything
hashkey(f, a) ==
    IF f = "bounds" THEN [f |-> f, sceneid |-> a.sceneid, x |-> 0, y |-> 0, z |-> 0,
                          rgb |-> RgbOmitted, tilesize |-> Omitted,
                          pmin |-> Omitted, pmax |-> Omitted]
    ELSE IF f = "metadata" THEN [f |-> f, sceneid |-> a.sceneid, x |-> 0, y |-> 0, z |-> 0,
                          rgb |-> RgbOmitted, tilesize |-> Omitted,
                          pmin |-> a.pmin, pmax |-> a.pmax]
    ELSE [f |-> f, sceneid |-> a.sceneid, x |-> a.x, y |-> a.y, z |-> a.z,
          rgb |-> a.rgb, tilesize |-> a.tilesize, pmin |-> Omitted, pmax |-> Omitted]

Keys(c) == {c[i].k : i \in 1..Len(c)}
IndexOf(c, k) == CHOOSE i \in 1..Len(c) : c[i].k = k
\* ValueOf answering with the oldest entry's value
ValueOfOldest(c, k) == c[1].v
ValueOf(c, k) == c[IndexOf(c, k)].v
Without(c, i) == SubSeq(c, 1, i - 1) \o SubSeq(c, i + 1, Len(c))

\* LruTouch taking the entry out of the cache
LruTouchDrop(c, k) == Without(c, IndexOf(c, k))

\* LRUCache.__getitem__: the key becomes the most recently used
LruTouch(c, k) == Append(Without(c, IndexOf(c, k)), c[IndexOf(c, k)])

\* popitem dropping the most recently used entry
popitemNewest(c) == SubSeq(c, 1, Len(c) - 1)

\* LRUCache.popitem: the least recently used entry goes
popitem(c) == Tail(c)

\* LruSet storing nothing
LruSetIgnored(c, k, v) == c

\* Cache.__setitem__ then LRUCache's update: a new key evicts while the cache is
\* full; the key stored becomes the most recently used
LruSet(c, k, v) ==
    IF k \in Keys(c)
    THEN Append(Without(c, IndexOf(c, k)), [k |-> k, v |-> v])
    ELSE Append(IF Len(c) + 1 > MaxSize THEN popitem(c) ELSE c, [k |-> k, v |-> v])

----------------------------------------------------------------------------
(* The bucket and the raster library.                                      *)

\* utils.cbers_parse_scene_id: a scene id that matches the CBERS pattern
WellFormed(sceneid) == sceneid >= 1
cbers_parse_scene_id(sceneid) == [key |-> <<"CBERS4", "MUX", sceneid>>]

cbers_address(sceneid) == <<CBERS_BUCKET, cbers_parse_scene_id(sceneid).key>>
BandAddress(sceneid, band) == [prefix |-> cbers_address(sceneid), file |-> <<sceneid, band>>]
PreviewAddress(sceneid) == [prefix |-> cbers_address(sceneid), file |-> <<0, "preview.jp2">>]

\* the band rasters a CBERS 4 MUX scene has in the bucket
ExistingBands == {"5", "6", "7", "8"}
Exists(address) == address.file[2] \in ExistingBands

\* side of the world square in geographic units: one unit is a tile of MaxZoom
WorldSize == 2 ^ MaxZoom

\* src.bounds of a scene's rasters in their native CRS (half a geographic unit
\* per native unit), as <<left, bottom, right, top>>: version 1 covers the
\* lower left quarter of the world, later versions the upper right quarter
NativeBounds(sceneid, ver) ==
    IF ver = 1 THEN <<0, 0, WorldSize, WorldSize>>
    ELSE <<WorldSize, WorldSize, 2 * WorldSize, 2 * WorldSize>>

\* rasterio.warp.transform_bounds(src.crs, 'epsg:4326', *src.bounds)
transform_bounds(b) == <<b[1] \div 2, b[2] \div 2, b[3] \div 2, b[4] \div 2>>

\* mercantile.xy_bounds(Tile(x, y, z)): the tile's box in native (projected)
\* units; tile rows count from the top
xy_bounds(x, y, z) ==
    LET side == 2 * (WorldSize \div (2 ^ z))
    IN  <<x * side, 2 * WorldSize - (y + 1) * side,
          (x + 1) * side, 2 * WorldSize - y * side>>

\* two boxes <<left, bottom, right, top>> share area
Overlap(a, b) == a[1] < b[3] /\ b[1] < a[3] /\ a[2] < b[4] /\ b[2] < a[4]

\* utils.tile_exists(bounds, tile_z, tile_x, tile_y): the tile's footprint, in
\* geographic units, overlaps the scene's bounds
tile_exists(b, z, x, y) == Overlap(transform_bounds(xy_bounds(x, y, z)), b)

\* the raster a worker reads: what utils.tile_band_worker returns for it
Grid(address, ver, tile_bounds, tilesize) ==
    [address |-> address, ver |-> ver, bounds |-> tile_bounds, size |-> tilesize]

\* what utils.sentinel_min_max_worker returns for it
MinMax(address, ver, pmin, pmax) ==
    [address |-> address, ver |-> ver, pmin |-> pmin, pmax |-> pmax]

----------------------------------------------------------------------------
(* Argument binding at function entry.                                     *)

BindRgb(rgb) == IF rgb.kind = "omitted" THEN RgbTuple(DefaultRgb) ELSE rgb
BindTilesize(n) == IF n = Omitted THEN DefaultTilesize ELSE n
BindPmin(n) == IF n = Omitted THEN DefaultPmin ELSE n
BindPmax(n) == IF n = Omitted THEN DefaultPmax ELSE n

\* the characters of a band string, which iterating over it would give
Chars(str) == IF str = "56" THEN <<"5", "6">> ELSE <<str>>

\* Coerce without the isinstance test: the bare string is used as the sequence
CoerceChars(rgb) == IF rgb.kind = "str" THEN Chars(rgb.s) ELSE rgb.tup

\* if isinstance(rgb, str): rgb = tuple((rgb, ))
Coerce(rgb) == IF rgb.kind = "str" THEN <<rgb.s>> ELSE rgb.tup

\* the band tuple the body of tile works with
Rgb(a) == Coerce(BindRgb(a.rgb))

\* the bands whose workers a call fans out
BandsOf(f, a) == IF f = "metadata" THEN MetadataBands ELSE Rgb(a)

\* a pool with a thread for every band
max_workers_unbounded(f) == Len(MetadataBands)

max_workers(f) == IF f = "metadata" THEN MetadataWorkers ELSE TileWorkers

\* the key of a call once the body has bound the defaults and coerced rgb
NormalKey(k) ==
    IF k.f = "bounds" THEN k
    ELSE IF k.f = "metadata"
    THEN [k EXCEPT !.pmin = BindPmin(k.pmin), !.pmax = BindPmax(k.pmax)]
    ELSE [k EXCEPT !.rgb = RgbTuple(Coerce(BindRgb(k.rgb))),
                   !.tilesize = BindTilesize(k.tilesize)]

----------------------------------------------------------------------------
(* Futures of a call's executor.                                           *)

\* submit(): a future in state PENDING (st) and its work item on the pool's
\* queue (item); the item is later held by a worker thread, then done with.
\* ret is what fn(address) returned or raised in the worker's hands, before
\* the worker sets it on the future as its result (res)
Future(address) ==
    [address |-> address, st |-> "pending", res |-> <<>>, item |-> "queued",
     ret |-> NoOutcome]

Running(ts) == {i \in 1..Len(ts) : ts[i].st = "running"}
Pending(ts) == {i \in 1..Len(ts) : ts[i].st = "pending"}
Queued(ts) == {i \in 1..Len(ts) : ts[i].item = "queued"}
Held(ts) == {i \in 1..Len(ts) : ts[i].item = "held"}

\* the work queue is first in, first out: a worker takes the oldest item
NextQueued(ts) == CHOOSE i \in Queued(ts) : \A j \in Queued(ts) : i <= j

\* NextYield taking the futures last submitted first
NextYieldReversed(ts, yielded) == Len(ts) - Len(yielded)

\* the future whose result the iterator of executor.map yields next: the
\* futures in submission order
NextYield(ts, yielded) == Len(yielded) + 1

\* cancel stopping a running future too
cancelStops(future) ==
    IF future.st \in {"pending", "running"}
    THEN [future EXCEPT !.st = "cancelled"] ELSE future

\* future.cancel(): only a future still in state PENDING is cancelled, on the
\* queue or in a worker's hands; a running or finished one is left alone
cancel(future) ==
    IF future.st = "pending" THEN [future EXCEPT !.st = "cancelled"] ELSE future

\* dict(zip(bands, responses)): a later duplicate overwrites
RECURSIVE DictZip(_, _, _)
DictZip(ks, vs, n) ==
    IF n = 0 THEN <<>>
    ELSE LET d == DictZip(ks, vs, n - 1)
         IN  [b \in (DOMAIN d) \cup {ks[n]} |-> IF b = ks[n] THEN vs[n] ELSE d[b]]

\* np.stack(arrays): the array whose first axis runs over the grids given, in
\* the order given
stack(arrays) == [n |-> Len(arrays), grids |-> arrays]

\* what the with block computes from the yielded results
Combine(f, a, box, yielded) ==
    IF f = "metadata"
    THEN [sceneid |-> a.sceneid, bounds |-> box,
          rgbMinMax |-> DictZip(MetadataBands, yielded, Len(yielded))]
    ELSE stack(yielded)

----------------------------------------------------------------------------
(* History kept for the properties.                                        *)

\* lastOk[f] holds, per key, what the latest call of f that returned gave
OkKeys(f) == {r.k : r \in lastOk[f]}
OkCalls(f) == {NormalKey(k) : k \in OkKeys(f)}
LastValue(f, k) == (CHOOSE r \in lastOk[f] : r.k = k).v
Record(f, k, v) == {r \in lastOk[f] : r.k # k} \cup {[k |-> k, v |-> v]}
SameAsLast(f, k, v) == k \in OkKeys(f) => LastValue(f, k) = v

----------------------------------------------------------------------------
(* Initial state.                                                          *)

UtilsBase == {"cbers_parse_scene_id", "sentinel_min_max_worker", "tile_band_worker",
              "tile_exists"}

Scenes == 0..NSweep

InitCommon ==
    /\ cache = [f \in Functions |-> <<>>]
    /\ asset = [s \in Scenes |-> 1]
    /\ pc = [t \in Threads |-> "idle"]
    /\ op = [t \in Threads |-> "none"]
    /\ args = [t \in Threads |-> NoArgs]
    /\ hit = [t \in Threads |-> FALSE]
    /\ opened = [t \in Threads |-> {}]
    /\ wgs = [t \in Threads |-> NoBox]
    /\ tasks = [t \in Threads |-> <<>>]
    /\ out = [t \in Threads |-> <<>>]
    /\ sweep = [t \in Threads |-> 0]
    /\ pending = [t \in Threads |-> NoOutcome]
    /\ outcome = [t \in Threads |-> NoOutcome]
    /\ ncalls = 0
    /\ lastOk = [f \in Functions |-> {}]
    /\ sameAsLast = [t \in Threads |-> TRUE]
    /\ seen = [t \in Threads |-> 0]
    /\ overtaken = [t \in Threads |-> FALSE]

Init ==
    /\ InitCommon
    /\ utilsNames \in {UtilsBase, UtilsBase \cup {"cbersl_parse_scene_id"}}

----------------------------------------------------------------------------
(* The lru_cache wrapper.                                                  *)

\* Call that waits while another caller computes the same key
CallOnce(t, f, a) ==
    LET k == hashkey(f, a) IN
    /\ pc[t] = "idle"
    /\ \A u \in Threads \ {t} :
          ~ (pc[u] \notin {"idle", "done"} /\ op[u] = f /\ hashkey(f, args[u]) = k)
    /\ op' = [op EXCEPT ![t] = f]
    /\ args' = [args EXCEPT ![t] = a]
    /\ opened' = [opened EXCEPT ![t] = {}]
    /\ wgs' = [wgs EXCEPT ![t] = NoBox]
    /\ tasks' = [tasks EXCEPT ![t] = <<>>]
    /\ out' = [out EXCEPT ![t] = <<>>]
    /\ pending' = [pending EXCEPT ![t] = NoOutcome]
    /\ ncalls' = IF ncalls < MaxCalls THEN ncalls + 1 ELSE ncalls
    /\ seen' = [seen EXCEPT ![t] = asset[a.sceneid]]
    /\ overtaken' = [overtaken EXCEPT ![t] = FALSE]
    /\ IF k \in Keys(cache[f])
       THEN /\ hit' = [hit EXCEPT ![t] = TRUE]
            /\ cache' = [cache EXCEPT ![f] = LruTouch(cache[f], k)]
            /\ outcome' = [outcome EXCEPT ![t] = Return(ValueOf(cache[f], k))]
            /\ sameAsLast' = [sameAsLast EXCEPT
                                ![t] = SameAsLast(f, k, ValueOf(cache[f], k))]
            /\ lastOk' = [lastOk EXCEPT
                            ![f] = Record(f, k, ValueOf(cache[f], k))]
            /\ pc' = [pc EXCEPT ![t] = "done"]
       ELSE /\ hit' = [hit EXCEPT ![t] = FALSE]
            /\ outcome' = [outcome EXCEPT ![t] = NoOutcome]
            /\ sameAsLast' = [sameAsLast EXCEPT ![t] = TRUE]
            /\ pc' = [pc EXCEPT ![t] = "body"]
            /\ UNCHANGED <<cache, lastOk>>
    /\ UNCHANGED <<asset, utilsNames, sweep>>

\* wrapper(*args, **kwargs) up to the call of the function: under the lock,
\* v = cache[k] and return v, or KeyError and on to the body
Call(t, f, a) ==
    LET k == hashkey(f, a) IN
    /\ pc[t] = "idle"
    /\ op' = [op EXCEPT ![t] = f]
    /\ args' = [args EXCEPT ![t] = a]
    /\ opened' = [opened EXCEPT ![t] = {}]
    /\ wgs' = [wgs EXCEPT ![t] = NoBox]
    /\ tasks' = [tasks EXCEPT ![t] = <<>>]
    /\ out' = [out EXCEPT ![t] = <<>>]
    /\ pending' = [pending EXCEPT ![t] = NoOutcome]
    /\ ncalls' = IF ncalls < MaxCalls THEN ncalls + 1 ELSE ncalls
    /\ seen' = [seen EXCEPT ![t] = asset[a.sceneid]]
    /\ overtaken' = [overtaken EXCEPT ![t] = FALSE]
    /\ IF k \in Keys(cache[f])
       THEN /\ hit' = [hit EXCEPT ![t] = TRUE]
            /\ cache' = [cache EXCEPT ![f] = LruTouch(cache[f], k)]
            /\ outcome' = [outcome EXCEPT ![t] = Return(ValueOf(cache[f], k))]
            /\ sameAsLast' = [sameAsLast EXCEPT
                                ![t] = SameAsLast(f, k, ValueOf(cache[f], k))]
            /\ lastOk' = [lastOk EXCEPT
                            ![f] = Record(f, k, ValueOf(cache[f], k))]
            /\ pc' = [pc EXCEPT ![t] = "done"]
       ELSE /\ hit' = [hit EXCEPT ![t] = FALSE]
            /\ outcome' = [outcome EXCEPT ![t] = NoOutcome]
            /\ sameAsLast' = [sameAsLast EXCEPT ![t] = TRUE]
            /\ pc' = [pc EXCEPT ![t] = "body"]
            /\ UNCHANGED <<cache, lastOk>>
    /\ UNCHANGED <<asset, utilsNames, sweep>>

\* the exception leaves the function and the wrapper: nothing is stored
Fail(t, e) ==
    /\ outcome' = [outcome EXCEPT ![t] = Raise(e)]
    /\ pc' = [pc EXCEPT ![t] = "done"]

\* wrapper after the function returned v, under the lock.  cachetools
\* releases differ here and the import names none: cache[k] = v; return v
\* in the older ones, return cache.setdefault(k, v) in the newer ones, which
\* keeps and returns the value a concurrent caller stored in the meantime.
\* keep tells which of the two the installed release does.
Store(t) ==
    LET f == op[t]
        k == hashkey(f, args[t])
    IN
    /\ pc[t] = "store"
    /\ \E keep \in BOOLEAN :
          IF keep /\ k \in Keys(cache[f])
          THEN /\ cache' = [cache EXCEPT ![f] = LruTouch(cache[f], k)]
               /\ outcome' = [outcome EXCEPT ![t] = Return(ValueOf(cache[f], k))]
               /\ sameAsLast' = [sameAsLast EXCEPT
                                   ![t] = SameAsLast(f, k, ValueOf(cache[f], k))]
               /\ lastOk' = [lastOk EXCEPT ![f] = Record(f, k, ValueOf(cache[f], k))]
          ELSE /\ cache' = [cache EXCEPT ![f] = LruSet(cache[f], k, pending[t].val)]
               /\ outcome' = [outcome EXCEPT ![t] = Return(pending[t].val)]
               /\ sameAsLast' = [sameAsLast EXCEPT
                                   ![t] = SameAsLast(f, k, pending[t].val)]
               /\ lastOk' = [lastOk EXCEPT ![f] = Record(f, k, pending[t].val)]
    /\ pc' = [pc EXCEPT ![t] = "done"]
    /\ UNCHANGED <<asset, utilsNames, sweep, op, args, hit, opened, wgs, tasks, out, pending,
                   ncalls, seen, overtaken>>

\* the caller has its result and is free for its next call
Finish(t) ==
    /\ pc[t] = "done"
    /\ pc' = [pc EXCEPT ![t] = "idle"]
    /\ op' = [op EXCEPT ![t] = "none"]
    /\ args' = [args EXCEPT ![t] = NoArgs]
    /\ hit' = [hit EXCEPT ![t] = FALSE]
    /\ opened' = [opened EXCEPT ![t] = {}]
    /\ wgs' = [wgs EXCEPT ![t] = NoBox]
    /\ tasks' = [tasks EXCEPT ![t] = <<>>]
    /\ out' = [out EXCEPT ![t] = <<>>]
    /\ pending' = [pending EXCEPT ![t] = NoOutcome]
    /\ outcome' = [outcome EXCEPT ![t] = NoOutcome]
    /\ sameAsLast' = [sameAsLast EXCEPT ![t] = TRUE]
    /\ seen' = [seen EXCEPT ![t] = 0]
    /\ overtaken' = [overtaken EXCEPT ![t] = FALSE]
    /\ UNCHANGED <<cache, asset, utilsNames, sweep, ncalls, lastOk>>

----------------------------------------------------------------------------
(* The function bodies.                                                    *)

\* with rasterio.open(address) as src: wgs_bounds = transform_bounds(...)
\* ok is whether the bucket serves the asset
OpenBounds(t, address, ok, next) ==
    /\ opened' = [opened EXCEPT ![t] = opened[t] \cup {address}]
    /\ IF ok
       THEN /\ wgs' = [wgs EXCEPT
                        ![t] = transform_bounds(
                                   NativeBounds(args[t].sceneid, asset[args[t].sceneid]))]
            /\ pc' = [pc EXCEPT ![t] = next]
            /\ UNCHANGED outcome
       ELSE /\ Fail(t, Error("IOError", address))
            /\ UNCHANGED wgs

\* bounds(sceneid), lines 35-45
BoundsBody(t, ok) ==
    LET s == args[t].sceneid IN
    /\ pc[t] = "body" /\ op[t] = "bounds"
    /\ IF ~ WellFormed(s)
       THEN /\ Fail(t, Error("ParseError", NoAddress))
            /\ UNCHANGED <<opened, wgs, pending>>
       ELSE /\ OpenBounds(t, BandAddress(s, "5"), ok, "store")
            /\ pending' = [pending EXCEPT
                  ![t] = IF ok
                         THEN Return([sceneid |-> s, bounds |-> wgs'[t]])
                         ELSE NoOutcome]
    /\ UNCHANGED <<cache, asset, utilsNames, sweep, op, args, hit, tasks, out, ncalls, lastOk,
                   sameAsLast, seen,
                   overtaken>>

Addresses(s, bands) == [i \in 1..Len(bands) |-> BandAddress(s, bands[i])]

\* executor.map(fn, addresses), fs = [self.submit(fn, a) for a in addresses]:
\* one submit() per step, in the order of the addresses, each putting a
\* future on the pool's queue, where a worker thread may take it before the
\* next is submitted; after the last, map returns the result iterator to
\* np.stack or list
Submit(t) ==
    LET addresses == Addresses(args[t].sceneid, BandsOf(op[t], args[t]))
        n == Len(tasks[t])
    IN
    /\ pc[t] = "submit"
    /\ IF n < Len(addresses)
       THEN /\ tasks' = [tasks EXCEPT ![t] = Append(@, Future(addresses[n + 1]))]
            /\ UNCHANGED pc
       ELSE /\ pc' = [pc EXCEPT ![t] = "collect"]
            /\ UNCHANGED tasks
    /\ UNCHANGED <<cache, asset, utilsNames, sweep, op, args, hit, opened, wgs, out, pending,
                   outcome, ncalls, lastOk, sameAsLast, seen,
                   overtaken>>

\* metadata(sceneid, pmin, pmax), lines 68-80: the scene address, the preview's
\* bounds, and the pool of the band workers created
MetadataOpen(t, ok) ==
    LET s == args[t].sceneid IN
    /\ pc[t] = "body" /\ op[t] = "metadata"
    /\ IF "cbersl_parse_scene_id" \notin utilsNames
       THEN /\ Fail(t, Error("AttributeError", NoAddress))
            /\ UNCHANGED <<opened, wgs, tasks>>
       ELSE IF ~ WellFormed(s)
       THEN /\ Fail(t, Error("ParseError", NoAddress))
            /\ UNCHANGED <<opened, wgs, tasks>>
       ELSE /\ OpenBounds(t, PreviewAddress(s), ok, "submit")
            /\ UNCHANGED tasks
    /\ UNCHANGED <<cache, asset, utilsNames, sweep, op, args, hit, out, pending, ncalls, lastOk,
                   sameAsLast, seen,
                   overtaken>>

\* tile(...), lines 112-120: coercion, the scene address, the reference
\* band's bounds
TileOpen(t, ok) ==
    LET s == args[t].sceneid IN
    /\ pc[t] = "body" /\ op[t] = "tile"
    /\ IF ~ WellFormed(s)
       THEN /\ Fail(t, Error("ParseError", NoAddress))
            /\ UNCHANGED <<opened, wgs>>
       ELSE OpenBounds(t, BandAddress(s, "5"), ok, "check")
    /\ UNCHANGED <<cache, asset, utilsNames, sweep, op, args, hit, tasks, out, pending, ncalls,
                   lastOk, sameAsLast, seen,
                   overtaken>>

\* TileCheck without the containment check
TileCheckSkipped(t) ==
    /\ pc[t] = "check"
    /\ pc' = [pc EXCEPT ![t] = "submit"]
    /\ UNCHANGED <<cache, asset, utilsNames, sweep, op, args, hit, opened, wgs, tasks, out,
                   pending, outcome, ncalls, lastOk, sameAsLast, seen,
                   overtaken>>

\* TileCheck storing the failure under the call's key before raising it
TileCheckMemoized(t) ==
    LET a == args[t] IN
    /\ pc[t] = "check"
    /\ IF ~ tile_exists(wgs[t], a.z, a.x, a.y)
       THEN /\ Fail(t, Error("TileOutsideBounds", NoAddress))
            /\ cache' = [cache EXCEPT
                  !["tile"] = LruSet(@, hashkey("tile", a),
                                     Error("TileOutsideBounds", NoAddress))]
       ELSE /\ pc' = [pc EXCEPT ![t] = "submit"]
            /\ UNCHANGED <<outcome, cache>>
    /\ UNCHANGED <<asset, utilsNames, sweep, op, args, hit, opened, wgs, tasks, out, pending,
                   ncalls, lastOk, sameAsLast, seen,
                   overtaken>>

\* TileCheck with the band workers submitted before the containment check
TileCheckAfterSubmit(t) ==
    LET a == args[t] IN
    /\ pc[t] = "check"
    /\ tasks' = [tasks EXCEPT
          ![t] = [i \in 1..Len(Rgb(a)) |-> Future(BandAddress(a.sceneid, Rgb(a)[i]))]]
    /\ IF ~ tile_exists(wgs[t], a.z, a.x, a.y)
       THEN Fail(t, Error("TileOutsideBounds", NoAddress))
       ELSE /\ pc' = [pc EXCEPT ![t] = "collect"]
            /\ UNCHANGED outcome
    /\ UNCHANGED <<cache, asset, utilsNames, sweep, op, args, hit, opened, wgs, out, pending,
                   ncalls, lastOk, sameAsLast, seen,
                   overtaken>>

\* tile(...), lines 122-132: the containment check, then the tile's bounds
\* and the pool of the band workers created
TileCheck(t) ==
    LET a == args[t] IN
    /\ pc[t] = "check"
    /\ IF ~ tile_exists(wgs[t], a.z, a.x, a.y)
       THEN Fail(t, Error("TileOutsideBounds", NoAddress))
       ELSE /\ pc' = [pc EXCEPT ![t] = "submit"]
            /\ UNCHANGED outcome
    /\ UNCHANGED <<cache, asset, utilsNames, sweep, op, args, hit, opened, wgs, tasks, out,
                   pending, ncalls, lastOk, sameAsLast, seen,
                   overtaken>>

----------------------------------------------------------------------------
(* The executor of a call: its worker threads and the result iterator.     *)

\* WorkerTake with worker threads that end after their first work item
WorkerTakeOnce(t) ==
    /\ pc[t] \in {"submit", "collect", "cancel", "shutdown"}
    /\ Queued(tasks[t]) # {}
    /\ Cardinality({i \in 1..Len(tasks[t]) : tasks[t][i].item # "queued"})
          < max_workers(op[t])
    /\ tasks' = [tasks EXCEPT ![t][NextQueued(tasks[t])].item = "held"]
    /\ UNCHANGED <<cache, asset, utilsNames, sweep, pc, op, args, hit, opened, wgs, out,
                   pending, outcome, ncalls, lastOk, sameAsLast, seen,
                   overtaken>>

\* a worker thread of the call's pool, work_queue.get(): it takes the oldest
\* item off the queue, from the first submission on; the pool has at most
\* max_workers threads, each holding one item at a time
WorkerTake(t) ==
    /\ pc[t] \in {"submit", "collect", "cancel", "shutdown"}
    /\ Queued(tasks[t]) # {}
    /\ Cardinality(Held(tasks[t])) < max_workers(op[t])
    /\ tasks' = [tasks EXCEPT ![t][NextQueued(tasks[t])].item = "held"]
    /\ UNCHANGED <<cache, asset, utilsNames, sweep, pc, op, args, hit, opened, wgs, out,
                   pending, outcome, ncalls, lastOk, sameAsLast, seen,
                   overtaken>>

\* work_item.run(), future.set_running_or_notify_cancel() of the item the
\* worker holds: a pending future becomes running, a cancelled one is
\* dropped and the worker is free again
WorkerStart(t, i) ==
    /\ i \in Held(tasks[t])
    /\ tasks[t][i].st \in {"pending", "cancelled"}
    /\ tasks' = [tasks EXCEPT
          ![t][i] = IF @.st = "pending"
                    THEN [@ EXCEPT !.st = "running"]
                    ELSE [@ EXCEPT !.item = "done"]]
    /\ UNCHANGED <<cache, asset, utilsNames, sweep, pc, op, args, hit, opened, wgs, out,
                   pending, outcome, ncalls, lastOk, sameAsLast, seen,
                   overtaken>>

\* what fn(address) returns: utils.tile_band_worker(address, bounds, tilesize)
\* or utils.sentinel_min_max_worker(address, pmin, pmax)
WorkerResult(f, a, address, ver) ==
    IF f = "metadata"
    THEN MinMax(address, ver, BindPmin(a.pmin), BindPmax(a.pmax))
    ELSE Grid(address, ver, xy_bounds(a.x, a.y, a.z), BindTilesize(a.tilesize))

\* work_item.run(), result = self.fn(*self.args): the worker function reads
\* the raster as the bucket has it now and returns (ok, which takes the asset
\* to exist) or raises; the future is still running
WorkerRun(t, i, ok) ==
    /\ i \in Running(tasks[t])
    /\ tasks[t][i].ret = NoOutcome
    /\ ok => Exists(tasks[t][i].address)
    /\ tasks' = [tasks EXCEPT
          ![t][i].ret = IF ok
                        THEN Return(WorkerResult(op[t], args[t], tasks[t][i].address,
                                                 asset[args[t].sceneid]))
                        ELSE Raise(Error("IOError", tasks[t][i].address))]
    /\ UNCHANGED <<cache, asset, utilsNames, sweep, pc, op, args, hit, opened, wgs, out,
                   pending, outcome, ncalls, lastOk, sameAsLast, seen,
                   overtaken>>

\* work_item.run(), self.future.set_result(result) or set_exception(exc):
\* the future is finished with what the worker function gave, and the
\* worker is free again
WorkerFinish(t, i) ==
    /\ i \in Running(tasks[t])
    /\ tasks[t][i].ret # NoOutcome
    /\ tasks' = [tasks EXCEPT
          ![t][i] = IF @.ret.kind = "return"
                    THEN [@ EXCEPT !.st = "ok", !.item = "done",
                                   !.res = tasks[t][i].ret.val]
                    ELSE [@ EXCEPT !.st = "fail", !.item = "done",
                                   !.res = tasks[t][i].ret.err]]
    /\ overtaken' = [overtaken EXCEPT
          ![t] = @ \/ \E j \in 1..(i - 1) : tasks[t][j].st \in {"pending", "running"}]
    /\ UNCHANGED <<cache, asset, utilsNames, sweep, pc, op, args, hit, opened, wgs, out,
                   pending, outcome, ncalls, lastOk, sameAsLast, seen>>

\* Collect raising the failure of whichever future has failed so far, as a
\* loop over futures.as_completed would
CollectAnyFailed(t) ==
    LET j == NextYield(tasks[t], out[t]) IN
    /\ pc[t] = "collect"
    /\ IF \E i \in 1..Len(tasks[t]) : tasks[t][i].st = "fail"
       THEN /\ \E i \in 1..Len(tasks[t]) :
                  /\ tasks[t][i].st = "fail"
                  /\ pending' = [pending EXCEPT ![t] = Raise(tasks[t][i].res)]
            /\ sweep' = [sweep EXCEPT ![t] = Len(tasks[t])]
            /\ pc' = [pc EXCEPT ![t] = "cancel"]
            /\ UNCHANGED out
       ELSE IF Len(out[t]) = Len(tasks[t])
       THEN /\ pending' = [pending EXCEPT
                   ![t] = Return(Combine(op[t], args[t], wgs[t], out[t]))]
            /\ pc' = [pc EXCEPT ![t] = "shutdown"]
            /\ UNCHANGED <<out, sweep>>
       ELSE /\ tasks[t][j].st = "ok"
            /\ out' = [out EXCEPT ![t] = Append(@, tasks[t][j].res)]
            /\ UNCHANGED <<pending, pc, sweep>>
    /\ UNCHANGED <<cache, asset, utilsNames, op, args, hit, opened, wgs, tasks, outcome,
                   ncalls, lastOk, sameAsLast, seen,
                   overtaken>>

\* Collect passing over a failed future and combining what it has
CollectPartial(t) ==
    LET j == NextYield(tasks[t], out[t]) IN
    /\ pc[t] = "collect"
    /\ IF Len(out[t]) = Len(tasks[t]) \/ tasks[t][j].st = "fail"
       THEN /\ pending' = [pending EXCEPT
                   ![t] = Return(Combine(op[t], args[t], wgs[t], out[t]))]
            /\ sweep' = [sweep EXCEPT ![t] = Len(tasks[t])]
            /\ pc' = [pc EXCEPT ![t] = "cancel"]
            /\ UNCHANGED out
       ELSE /\ tasks[t][j].st = "ok"
            /\ out' = [out EXCEPT ![t] = Append(@, tasks[t][j].res)]
            /\ UNCHANGED <<pending, pc, sweep>>
    /\ UNCHANGED <<cache, asset, utilsNames, op, args, hit, opened, wgs, tasks, outcome,
                   ncalls, lastOk, sameAsLast, seen,
                   overtaken>>

\* np.stack(...) or list(...) asks the result iterator for its next item:
\* future.result() of the next future returns, or raises and the iterator's
\* finally clause is entered, at the future submitted last; after the last
\* future the with block has its value
Collect(t) ==
    LET j == NextYield(tasks[t], out[t]) IN
    /\ pc[t] = "collect"
    /\ IF Len(out[t]) = Len(tasks[t])
       THEN /\ pending' = [pending EXCEPT
                   ![t] = Return(Combine(op[t], args[t], wgs[t], out[t]))]
            /\ pc' = [pc EXCEPT ![t] = "shutdown"]
            /\ UNCHANGED <<out, sweep>>
       ELSE \/ /\ tasks[t][j].st = "ok"
               /\ out' = [out EXCEPT ![t] = Append(@, tasks[t][j].res)]
               /\ UNCHANGED <<pending, pc, sweep>>
            \/ /\ tasks[t][j].st = "fail"
               /\ pending' = [pending EXCEPT ![t] = Raise(tasks[t][j].res)]
               /\ sweep' = [sweep EXCEPT ![t] = Len(tasks[t])]
               /\ pc' = [pc EXCEPT ![t] = "cancel"]
               /\ UNCHANGED out
    /\ UNCHANGED <<cache, asset, utilsNames, op, args, hit, opened, wgs, tasks, outcome,
                   ncalls, lastOk, sameAsLast, seen,
                   overtaken>>

\* the finally clause of the result iterator, for future in fs:
\* future.cancel(): one future per step, the one submitted last first, down
\* to the one after the future whose result() raised; worker threads run in
\* between.  Then the exception leaves the with block's body
Cancel(t) ==
    /\ pc[t] = "cancel"
    /\ IF sweep[t] > NextYield(tasks[t], out[t])
       THEN /\ tasks' = [tasks EXCEPT ![t][sweep[t]] = cancel(@)]
            /\ sweep' = [sweep EXCEPT ![t] = @ - 1]
            /\ UNCHANGED pc
       ELSE /\ pc' = [pc EXCEPT ![t] = "shutdown"]
            /\ sweep' = [sweep EXCEPT ![t] = 0]
            /\ UNCHANGED tasks
    /\ UNCHANGED <<cache, asset, utilsNames, op, args, hit, opened, wgs, out, pending,
                   outcome, ncalls, lastOk, sameAsLast, seen,
                   overtaken>>

\* Shutdown that does not wait for the pool's workers
ShutdownNoWait(t) ==
    /\ pc[t] = "shutdown"
    /\ IF pending[t].kind = "raise"
       THEN Fail(t, pending[t].err)
       ELSE /\ pc' = [pc EXCEPT ![t] = "store"]
            /\ UNCHANGED outcome
    /\ UNCHANGED <<cache, asset, utilsNames, sweep, op, args, hit, opened, wgs, tasks, out,
                   pending, ncalls, lastOk, sameAsLast, seen,
                   overtaken>>

\* the with block's exit: executor.shutdown(wait=True) returns when the
\* worker threads have ended, which they do when the queue is drained and
\* no item is in a worker's hands; then the value (to the wrapper) or the
\* exception (to the caller) leaves the function
Shutdown(t) ==
    /\ pc[t] = "shutdown"
    /\ Queued(tasks[t]) = {} /\ Held(tasks[t]) = {}
    /\ IF pending[t].kind = "raise"
       THEN Fail(t, pending[t].err)
       ELSE /\ pc' = [pc EXCEPT ![t] = "store"]
            /\ UNCHANGED outcome
    /\ UNCHANGED <<cache, asset, utilsNames, sweep, op, args, hit, opened, wgs, tasks, out,
                   pending, ncalls, lastOk, sameAsLast, seen,
                   overtaken>>

----------------------------------------------------------------------------
(* The bucket.                                                             *)

\* the scene's rasters are replaced in the bucket
AssetChange(s) ==
    /\ asset[s] < NVersions
    /\ asset' = [asset EXCEPT ![s] = @ + 1]
    /\ UNCHANGED <<cache, utilsNames, sweep, pc, op, args, hit, opened, wgs, tasks, out, pending,
                   outcome, ncalls, lastOk, sameAsLast, seen,
                   overtaken>>

----------------------------------------------------------------------------
(* Spec: one caller; calls of all three functions on scene 1 and on a      *)
(* malformed scene id, with every shape of rgb.                            *)

\* tile (0, 1, 1) lies inside version 1 of the scene and outside later
\* versions; tile (1, 0, 1) the other way round
SpecTileArgs ==
    { TileArgs(1, 0, 1, 1, RgbStr("5"), Omitted),
      TileArgs(1, 0, 1, 1, RgbStr("5"), DefaultTilesize),
      TileArgs(1, 0, 1, 1, RgbTuple(<<"5">>), Omitted),
      TileArgs(1, 0, 1, 1, RgbTuple(<<"6", "5", "6">>), Omitted),
      TileArgs(1, 1, 0, 1, RgbOmitted, Omitted),
      TileArgs(0, 0, 1, 1, RgbOmitted, Omitted) }
SpecMetadataArgs == {MetadataArgs(s, Omitted, Omitted) : s \in {0, 1}}
SpecBoundsArgs == {BoundsArgs(s) : s \in {0, 1}}

CallAny(t) ==
    /\ ncalls < MaxCalls
    /\ \/ \E a \in SpecBoundsArgs : Call(t, "bounds", a)
       \/ \E a \in SpecMetadataArgs : Call(t, "metadata", a)
       \/ \E a \in SpecTileArgs : Call(t, "tile", a)

Next ==
    \/ CallAny("t1")
    \/ \E ok \in BOOLEAN : BoundsBody("t1", ok)
    \/ \E ok \in BOOLEAN : MetadataOpen("t1", ok)
    \/ \E ok \in BOOLEAN : TileOpen("t1", ok)
    \/ TileCheck("t1")
    \/ Submit("t1")
    \/ WorkerTake("t1")
    \/ \E i \in 1..4 : WorkerStart("t1", i)
    \/ \E i \in 1..4, ok \in BOOLEAN : WorkerRun("t1", i, ok)
    \/ \E i \in 1..4 : WorkerFinish("t1", i)
    \/ Collect("t1")
    \/ Cancel("t1")
    \/ Shutdown("t1")
    \/ Store("t1")
    \/ Finish("t1")
    \/ AssetChange(1)

Spec == Init /\ [][Next]_vars

\* the same caller where rio_tiler.utils defines only the resolver name that
\* bounds and tile call
InitNoAlias ==
    /\ InitCommon
    /\ utilsNames = UtilsBase

SpecNoAlias == InitNoAlias /\ [][Next]_vars

----------------------------------------------------------------------------
(* SpecLRU: one caller that looks bounds up for scene ids 1, 2, 3, ... in  *)
(* turn and may come back to scene 1 at any time, while scene 1's rasters  *)
(* may be replaced in the bucket.                                          *)

\* the highest scene id looked up so far, 0 before the first
MaxScene(c) ==
    LET ids == {c[i].k.sceneid : i \in 1..Len(c)} \cup {0}
    IN  CHOOSE m \in ids : \A n \in ids : n <= m

SweepScenes == {1} \cup ({1 + MaxScene(cache["bounds"])} \cap (1..NSweep))

NextLRU ==
    \/ \E s \in SweepScenes : Call("t1", "bounds", BoundsArgs(s))
    \/ \E ok \in BOOLEAN : BoundsBody("t1", ok)
    \/ Store("t1")
    \/ Finish("t1")
    \/ AssetChange(1)

SpecLRU == InitNoAlias /\ [][NextLRU]_vars

----------------------------------------------------------------------------
(* SpecCoerce: caller t1 passes rgb as a bare string, caller t2 passes the *)
(* one-element tuple of the same string, for the same tile, each as often  *)
(* as it likes.  "56" names no band of the scene.                          *)

CoerceBands == {"5", "56"}

NextCoerce ==
    \/ \E b \in CoerceBands :
          Call("t1", "tile", TileArgs(1, 0, 1, 1, RgbStr(b), Omitted))
    \/ \E b \in CoerceBands :
          Call("t2", "tile", TileArgs(1, 0, 1, 1, RgbTuple(<<b>>), Omitted))
    \/ \E t \in Threads :
          \/ \E ok \in BOOLEAN : TileOpen(t, ok)
          \/ TileCheck(t)
          \/ Submit(t)
          \/ WorkerTake(t)
          \/ \E i \in 1..2 : WorkerStart(t, i)
          \/ \E i \in 1..2, ok \in BOOLEAN : WorkerRun(t, i, ok)
          \/ \E i \in 1..2 : WorkerFinish(t, i)
          \/ Collect(t)
          \/ Cancel(t)
          \/ Shutdown(t)
          \/ Store(t)
          \/ Finish(t)
    \/ AssetChange(1)

SpecCoerce == InitNoAlias /\ [][NextCoerce]_vars

----------------------------------------------------------------------------
(* SpecRace: callers t1 and t2 call bounds, or tile, with the same         *)
(* arguments, at any time and so also at the same time, while scene 1's    *)
(* rasters may be replaced in the bucket.                                  *)

RaceTileArgs == TileArgs(1, 0, 1, 1, RgbTuple(<<"5">>), Omitted)

NextRace ==
    \/ \E t \in Threads :
          /\ ncalls < MaxCalls
          /\ \/ Call(t, "bounds", BoundsArgs(1))
             \/ Call(t, "tile", RaceTileArgs)
    \/ \E t \in Threads :
          \/ \E ok \in BOOLEAN : BoundsBody(t, ok)
          \/ \E ok \in BOOLEAN : TileOpen(t, ok)
          \/ TileCheck(t)
          \/ Submit(t)
          \/ WorkerTake(t)
          \/ WorkerStart(t, 1)
          \/ \E ok \in BOOLEAN : WorkerRun(t, 1, ok)
          \/ WorkerFinish(t, 1)
          \/ Collect(t)
          \/ Cancel(t)
          \/ Shutdown(t)
          \/ Store(t)
          \/ Finish(t)
    \/ AssetChange(1)

SpecRace == InitNoAlias /\ [][NextRace]_vars

----------------------------------------------------------------------------
(* SpecRetry: one caller that calls tile again and again with the same     *)
(* arguments, for a tile that lies outside version 1 of the scene and      *)
(* inside later versions.                                                  *)

RetryTileArgs == TileArgs(1, 1, 0, 1, RgbTuple(<<"5", "6", "7">>), Omitted)

NextRetry ==
    \/ ncalls < MaxCalls /\ Call("t1", "tile", RetryTileArgs)
    \/ \E ok \in BOOLEAN : TileOpen("t1", ok)
    \/ TileCheck("t1")
    \/ Submit("t1")
    \/ WorkerTake("t1")
    \/ \E i \in 1..3 : WorkerStart("t1", i)
    \/ \E i \in 1..3, ok \in BOOLEAN : WorkerRun("t1", i, ok)
    \/ \E i \in 1..3 : WorkerFinish("t1", i)
    \/ Collect("t1")
    \/ Cancel("t1")
    \/ Shutdown("t1")
    \/ Store("t1")
    \/ Finish("t1")
    \/ AssetChange(1)

SpecRetry == InitNoAlias /\ [][NextRetry]_vars

----------------------------------------------------------------------------------------------------------------------------------------------
(* SpecLive: one caller of metadata and of tile with four bands, more than *)
(* either pool has workers.  The caller's thread and the pool's worker     *)
(* threads keep running: a step of the call that can be taken is taken,    *)
(* and a band worker that runs returns or raises.  When the caller calls   *)
(* is left open.  SpecPool is the same caller without the assumption that  *)
(* threads keep running, while scene 1's rasters may be replaced.          *)
(* SpecTwoPools adds a second caller, of a one-band tile of another size,  *)
(* whose call may run at the same time.                                    *)

LiveTileArgs == TileArgs(1, 0, 1, 1, RgbTuple(<<"5", "6", "7", "8">>), Omitted)

NextLive ==
    \/ /\ ncalls < MaxCalls
       /\ \/ Call("t1", "tile", LiveTileArgs)
          \/ Call("t1", "metadata", MetadataArgs(1, Omitted, Omitted))
    \/ \E ok \in BOOLEAN : MetadataOpen("t1", ok)
    \/ \E ok \in BOOLEAN : TileOpen("t1", ok)
    \/ TileCheck("t1")
    \/ Submit("t1")
    \/ WorkerTake("t1")
    \/ \E i \in 1..4 : WorkerStart("t1", i)
    \/ \E i \in 1..4, ok \in BOOLEAN : WorkerRun("t1", i, ok)
    \/ \E i \in 1..4 : WorkerFinish("t1", i)
    \/ Collect("t1")
    \/ Cancel("t1")
    \/ Shutdown("t1")
    \/ Store("t1")
    \/ Finish("t1")

Fairness ==
    /\ WF_vars(\E ok \in BOOLEAN : MetadataOpen("t1", ok))
    /\ WF_vars(\E ok \in BOOLEAN : TileOpen("t1", ok))
    /\ WF_vars(TileCheck("t1"))
    /\ WF_vars(Submit("t1"))
    /\ WF_vars(WorkerTake("t1"))
    /\ \A i \in 1..4 : WF_vars(WorkerStart("t1", i))
    /\ \A i \in 1..4 : WF_vars(\E ok \in BOOLEAN : WorkerRun("t1", i, ok))
    /\ \A i \in 1..4 : WF_vars(WorkerFinish("t1", i))
    /\ WF_vars(Collect("t1"))
    /\ WF_vars(Cancel("t1"))
    /\ WF_vars(Shutdown("t1"))
    /\ WF_vars(Store("t1"))

SpecLive == Init /\ [][NextLive]_vars /\ Fairness

NextPool ==
    \/ NextLive
    \/ AssetChange(1)

SpecPool == Init /\ [][NextPool]_vars

PoolTileArgs == TileArgs(1, 0, 1, 1, RgbTuple(<<"6">>), 512)

NextTwoPools ==
    \/ /\ ncalls < MaxCalls
       /\ \/ Call("t1", "tile", LiveTileArgs)
          \/ Call("t1", "metadata", MetadataArgs(1, Omitted, Omitted))
          \/ Call("t2", "tile", PoolTileArgs)
    \/ \E t \in Threads :
          \/ \E ok \in BOOLEAN : MetadataOpen(t, ok)
          \/ \E ok \in BOOLEAN : TileOpen(t, ok)
          \/ TileCheck(t)
          \/ Submit(t)
          \/ WorkerTake(t)
          \/ \E i \in 1..4 : WorkerStart(t, i)
          \/ \E i \in 1..4, ok \in BOOLEAN : WorkerRun(t, i, ok)
          \/ \E i \in 1..4 : WorkerFinish(t, i)
          \/ Collect(t)
          \/ Cancel(t)
          \/ Shutdown(t)
          \/ Store(t)
          \/ Finish(t)

SpecTwoPools == Init /\ [][NextTwoPools]_vars

----------------------------------------------------------------------------
(* Properties.                                                             *)

Done(t) == pc[t] = "done"
Returned(t) == Done(t) /\ outcome[t].kind = "return"
Raised(t) == Done(t) /\ outcome[t].kind = "raise"
RaisedType(t, type) == Raised(t) /\ outcome[t].err.type = type

\* the tile's footprint in geographic units
Footprint(a) == transform_bounds(xy_bounds(a.x, a.y, a.z))

\* C1: a tile call raises TileOutsideBounds exactly when it derived the
\* scene's bounds from the reference band BAND5 and the tile's footprint does
\* not intersect them; a call whose tile overlaps them does not raise it.
C1_OutsideIffDisjoint ==
    \A t \in Threads :
        (op[t] = "tile" /\ Done(t)) =>
            /\ RaisedType(t, "TileOutsideBounds")
                  <=> (wgs[t] # NoBox /\ ~ Overlap(Footprint(args[t]), wgs[t]))
            /\ wgs[t] # NoBox => opened[t] = {BandAddress(args[t].sceneid, "5")}

C1_Witness ==
    \E t \in Threads :
        /\ op[t] = "tile" /\ RaisedType(t, "TileOutsideBounds")
        /\ ~ Overlap(Footprint(args[t]), wgs[t])

\* C2: a tile call that returns gives one grid per band of rgb, grid i being
\* what the worker of rgb[i] returned, whatever the order the workers
\* finished in; duplicates are kept.
C2_StackInBandOrder ==
    \A t \in Threads :
        (op[t] = "tile" /\ Returned(t)) =>
            LET v == outcome[t].val.grids
                rgb == Rgb(args[t])
            IN  /\ Len(v) = Len(rgb) /\ outcome[t].val.n = Len(rgb)
                /\ \A i \in 1..Len(rgb) :
                      /\ v[i].address = BandAddress(args[t].sceneid, rgb[i])
                      /\ ~ hit[t] => v[i] = tasks[t][i].res

\* a tile call with a band given twice returned, a band's worker having
\* finished before the worker of a band given earlier: the stack has the
\* grids in rgb's order, the repeated band's twice
C2_Witness ==
    \E t \in Threads :
        /\ op[t] = "tile" /\ Returned(t) /\ ~ hit[t]
        /\ overtaken[t]
        /\ outcome[t].val.n >= 3
        /\ outcome[t].val.grids[1].address # outcome[t].val.grids[2].address
        /\ \E i \in 1..outcome[t].val.n : \E j \in (i + 1)..outcome[t].val.n :
              /\ Rgb(args[t])[i] = Rgb(args[t])[j]
              /\ outcome[t].val.grids[i].address = outcome[t].val.grids[j].address

\* C3 as stated: every bounds call that returns gives what the previous
\* successful bounds call for the scene gave.
C3_Orig_BoundsAlwaysSame ==
    \A t \in Threads : op[t] = "bounds" => sameAsLast[t]

\* C3, amended: a bounds call served from the cache opens no raster and
\* returns what the previous successful bounds call for the scene returned,
\* whatever happened in between and whatever the asset has become.
C3_CachedBoundsSame ==
    \A t \in Threads :
        (op[t] = "bounds" /\ hit[t]) =>
            /\ Returned(t)
            /\ sameAsLast[t]
            /\ opened[t] = {}
            /\ outcome[t].val.sceneid = args[t].sceneid

\* scene 1's rasters were replaced and bounds(1) still answers with the
\* bounds of version 1
C3_Witness ==
    \E t \in Threads :
        /\ op[t] = "bounds" /\ hit[t] /\ Returned(t)
        /\ asset[args[t].sceneid] = 2
        /\ outcome[t].val.bounds = transform_bounds(NativeBounds(args[t].sceneid, 1))

\* C4 as stated: the set of cached keys of every function only grows.
C4_Orig_NeverEvicts ==
    [][\A f \in Functions : Keys(cache[f]) \subseteq Keys(cache'[f])]_vars

\* C4, amended: each cache holds at most 128 entries; a call that completes
\* successfully leaves its key in the cache; a key leaves the cache only when
\* the cache is full and a new key is stored, and it is then the least
\* recently used one (the head of the sequence).
C4_BoundedLRU ==
    /\ [](\A f \in Functions : Len(cache[f]) <= MaxSize)
    /\ [][/\ \A f \in Functions : \A k \in Keys(cache[f]) \ Keys(cache'[f]) :
                /\ Len(cache[f]) = MaxSize
                /\ k = cache[f][1].k
                /\ Keys(cache'[f]) \ Keys(cache[f]) # {}
          /\ \A t \in Threads :
                (pc[t] = "store" /\ pc'[t] = "done") =>
                    hashkey(op[t], args[t]) \in Keys(cache'[op[t]])]_vars

\* a key whose call completed successfully is no longer cached
C4_Witness ==
    \E f \in Functions :
        /\ Len(cache[f]) = MaxSize
        /\ \E k \in OkKeys(f) : k \notin Keys(cache[f])

\* thread t enters a call of tile in this step
NewTileCall(t) == pc[t] = "idle" /\ pc'[t] # "idle" /\ op'[t] = "tile"

\* C5 as stated: a tile call whose six values, after coercion of a bare
\* string and binding of the defaults, equal those of an earlier successful
\* call is served from the cache.
C5_Orig_NormalisedKey ==
    [][\A t \in Threads :
          (NewTileCall(t) /\ NormalKey(hashkey("tile", args'[t])) \in OkCalls("tile"))
              => (hit'[t] /\ pc'[t] = "done")]_vars

\* C5, amended: the key is the arguments as passed.  A tile call whose
\* arguments are passed as in an earlier successful call, whose entry is
\* cached (as it is while the cache has not filled up), returns that entry's
\* value at once, opening no raster and submitting no band worker.
C5_RawKeyServed ==
    /\ [][\A t \in Threads :
            LET k == hashkey("tile", args'[t]) IN
            (/\ NewTileCall(t)
             /\ \/ k \in Keys(cache["tile"])
                \/ k \in OkKeys("tile") /\ Len(cache["tile"]) < MaxSize)
                => /\ hit'[t] /\ pc'[t] = "done"
                   /\ outcome'[t] = Return(LastValue("tile", k))]_vars
    /\ [](\A t \in Threads : hit[t] => (opened[t] = {} /\ tasks[t] = <<>> /\ Returned(t)))

C5_Witness ==
    \E t \in Threads :
        /\ op[t] = "tile" /\ hit[t] /\ Returned(t)
        /\ hashkey("tile", args[t]) \in OkKeys("tile")
        /\ opened[t] = {} /\ tasks[t] = <<>>

\* the bucket answered two calls alike: the same bounds from the reference
\* band, and the same result or failure for every band asset both asked for
SameResponses(t1, t2) ==
    /\ opened[t1] = opened[t2]
    /\ wgs[t1] = wgs[t2]
    /\ \A i \in 1..Len(tasks[t1]) : \A j \in 1..Len(tasks[t2]) :
          tasks[t1][i].address = tasks[t2][j].address =>
              /\ tasks[t1][i].st = tasks[t2][j].st
              /\ tasks[t1][i].res = tasks[t2][j].res

\* t1 passed the bare string that t2 passed as a one-element tuple, all else equal
StrAndTuple(t1, t2) ==
    /\ op[t1] = "tile" /\ op[t2] = "tile"
    /\ args[t1].rgb.kind = "str"
    /\ args[t2] = [args[t1] EXCEPT !.rgb = RgbTuple(<<args[t1].rgb.s>>)]

\* both calls were made with the scene's rasters as they are now, and the
\* bucket failed neither
SameBucket(t1, t2) ==
    /\ seen[t1] = asset[args[t1].sceneid]
    /\ seen[t2] = asset[args[t2].sceneid]
    /\ ~ RaisedType(t1, "IOError") /\ ~ RaisedType(t2, "IOError")

\* C6 as stated: tile with rgb a bare string b and tile with rgb = (b,), on
\* the same contents of the bucket, end alike: the same one-band result or
\* the same error.
C6_Orig_Identical ==
    \A t1 \in Threads : \A t2 \in Threads :
        (StrAndTuple(t1, t2) /\ Done(t1) /\ Done(t2) /\ SameBucket(t1, t2))
            => outcome[t1] = outcome[t2]

\* C6, amended: the two forms have different cache keys, and end alike when
\* neither call is served from the cache: the same one-band result or the
\* same error, on the same answers of the bucket and so on the same
\* contents of the bucket.
C6_StrSameAsTuple ==
    \A t1 \in Threads : \A t2 \in Threads :
        StrAndTuple(t1, t2) =>
            /\ hashkey("tile", args[t1]) # hashkey("tile", args[t2])
            /\ (Done(t1) /\ Done(t2) /\ ~ hit[t1] /\ ~ hit[t2]) =>
                  /\ SameResponses(t1, t2) =>
                        /\ outcome[t1] = outcome[t2]
                        /\ Returned(t1) => Len(outcome[t1].val.grids) = 1
                  /\ SameBucket(t1, t2) => outcome[t1] = outcome[t2]

\* a call in each form ran the function body on the same answers of the
\* bucket, and both returned the same one-band stack
C6_Witness ==
    \E t1 \in Threads : \E t2 \in Threads :
        /\ StrAndTuple(t1, t2)
        /\ ~ hit[t1] /\ ~ hit[t2] /\ SameResponses(t1, t2)
        /\ Returned(t1) /\ Returned(t2)
        /\ outcome[t1] = outcome[t2]

\* the highest position of band b in bands
LastIndex(bands, b) ==
    CHOOSE i \in 1..Len(bands) : bands[i] = b /\ \A j \in (i + 1)..Len(bands) : bands[j] # b

\* positions of bands that a later position repeats
Repeated(bands) == {i \in 1..Len(bands) : \E j \in (i + 1)..Len(bands) : bands[j] = bands[i]}

Failed(ts) == {i \in 1..Len(ts) : ts[i].st = "fail"}

\* C8: once a band worker of a call has failed, the call returns nothing:
\* no value is on its way to the cache or the caller, and the call ends
\* raising the failure of one of its failed workers.  Each band has exactly
\* one future, so no band is tried again.
C8_WorkerFailureAborts ==
    \A t \in Threads :
        /\ Len(tasks[t]) <= Len(BandsOf(op[t], args[t]))
        /\ (/\ op[t] \in {"tile", "metadata"}
            /\ \/ pc[t] \in {"collect", "shutdown", "store"}
               \/ Done(t) /\ tasks[t] # <<>>)
              => Len(tasks[t]) = Len(BandsOf(op[t], args[t]))
        /\ Failed(tasks[t]) # {} =>
              /\ pc[t] # "store"
              /\ pending[t].kind # "return"
              /\ outcome[t].kind # "return"
              /\ Done(t) =>
                    /\ Raised(t)
                    /\ \E i \in Failed(tasks[t]) : outcome[t].err = tasks[t][i].res

\* a call raised a worker's failure although another band's worker had returned
C8_Witness ==
    \E t \in Threads :
        /\ utilsNames = UtilsBase
        /\ op[t] = "tile" /\ Raised(t)
        /\ \E i \in Failed(tasks[t]) : outcome[t].err = tasks[t][i].res
        /\ \E j \in 1..Len(tasks[t]) : tasks[t][j].st = "ok"

\* C9: at most 3 workers of a tile call and at most 2 of a metadata call
\* hold or run a band task at a time, however many bands were submitted.
\* The pool is the call's own: its workers take the call's tasks whatever
\* the workers of a call running at the same time are doing, and every
\* task a call holds is of the call's own bands and gets the result
\* computed for the call's own arguments.
C9_PoolSize ==
    \A t \in Threads :
        LET limit == IF op[t] = "tile" THEN 3 ELSE IF op[t] = "metadata" THEN 2 ELSE 0
            bands == BandsOf(op[t], args[t])
        IN  /\ Cardinality(Running(tasks[t])) <= limit
            /\ Cardinality(Held(tasks[t])) <= limit
            /\ (/\ pc[t] \in {"submit", "collect", "cancel", "shutdown"}
                /\ Queued(tasks[t]) # {}
                /\ Cardinality(Held(tasks[t])) < limit) => ENABLED WorkerTake(t)
            /\ \A i \in 1..Len(tasks[t]) :
                  /\ tasks[t][i].address = BandAddress(args[t].sceneid, bands[i])
                  /\ tasks[t][i].st = "ok" =>
                        \E ver \in 1..asset[args[t].sceneid] :
                            tasks[t][i].res = WorkerResult(op[t], args[t],
                                                           tasks[t][i].address, ver)

\* a tile call of four bands has three workers running and a band waiting
\* in its queue, while the band worker of another caller's tile call runs:
\* four band workers run at once, and the waiting band is not taken by the
\* other call's pool
C9_Witness ==
    \E t \in Threads : \E u \in Threads \ {t} :
        /\ utilsNames = UtilsBase
        /\ op[t] = "tile" /\ op[u] = "tile"
        /\ Cardinality(Running(tasks[t])) = 3
        /\ Queued(tasks[t]) # {}
        /\ Cardinality(Running(tasks[u])) = 1
        /\ Queued(tasks[u]) = {} /\ Cardinality(Held(tasks[u])) < 3

\* C10 as stated: no band task is ever cancelled.
C10_Orig_NeverCancelled ==
    \A t \in Threads : \A i \in 1..Len(tasks[t]) : tasks[t][i].st # "cancelled"

\* C10, amended: a band task that a worker has started is never stopped, it
\* stays running until it returns or raises; a task is cancelled only before
\* a worker has started it, and only after the result iterator has raised
\* the failure of a band submitted before it; a cancelled task never runs.
C10_StartedRunsToEnd ==
    /\ [][\A t \in Threads : \A i \in 1..Len(tasks[t]) :
            tasks[t][i].st = "running" =>
                /\ i \in 1..Len(tasks'[t])
                /\ tasks'[t][i].st \in {"running", "ok", "fail"}]_vars
    /\ [][\A t \in Threads : \A i \in 1..Len(tasks[t]) :
            (/\ i \in 1..Len(tasks'[t])
             /\ tasks[t][i].st # "cancelled" /\ tasks'[t][i].st = "cancelled")
                => /\ tasks[t][i].st = "pending"
                   /\ pending'[t].kind = "raise"
                   /\ \E j \in 1..(i - 1) :
                         tasks[t][j].st = "fail" /\ pending'[t].err = tasks[t][j].res]_vars
    /\ [][\A t \in Threads : \A i \in 1..Len(tasks[t]) :
            (i \in 1..Len(tasks'[t]) /\ tasks[t][i].st = "cancelled")
                => tasks'[t][i].st = "cancelled" /\ tasks'[t][i].res = <<>>]_vars

\* a task not yet started was cancelled while a started one is still running
C10_Witness ==
    \E t \in Threads : \E i \in 1..Len(tasks[t]) : \E j \in 1..Len(tasks[t]) :
        /\ utilsNames = UtilsBase
        /\ op[t] = "tile" /\ tasks[t][i].st = "cancelled" /\ tasks[t][j].st = "running"

\* C11: when a tile or metadata call has left its with block (its value is
\* with the wrapper, or the call has returned or raised), no band worker of
\* the call is running and no band task of the call is pending.
C11_PoolTornDown ==
    \A t \in Threads :
        (op[t] \in {"tile", "metadata"} /\ pc[t] \in {"store", "done"}) =>
            /\ Running(tasks[t]) = {}
            /\ Pending(tasks[t]) = {}

\* a tile call raised a band's failure; a band submitted after the failed one
\* was run to its end and another was cancelled in the queue
C11_Witness ==
    \E t \in Threads :
        /\ utilsNames = UtilsBase
        /\ op[t] = "tile" /\ Raised(t)
        /\ \E i \in Failed(tasks[t]) :
              /\ outcome[t].err = tasks[t][i].res
              /\ \E j \in (i + 1)..Len(tasks[t]) : tasks[t][j].st = "ok"
              /\ \E j \in (i + 1)..Len(tasks[t]) : tasks[t][j].st = "cancelled"

\* thread u is computing a key that is not cached
Computing(u) ==
    /\ pc[u] \in {"body", "check", "submit", "collect", "cancel", "shutdown", "store"}
    /\ hashkey(op[u], args[u]) \notin Keys(cache[op[u]])

\* C12: the wrapper computes a key as often as it is missed.  While a caller
\* is computing a key that is not cached, another caller of the same function
\* with the same arguments is not held back: its call can start at once and
\* then misses and enters the body.  Every caller that missed does the whole
\* computation itself: it opens the reference raster and, in tile, submits
\* its own band workers.
C12_NoComputeOnce ==
    /\ \A t \in Threads : \A u \in Threads \ {t} :
          (pc[t] = "idle" /\ Computing(u)) =>
              ENABLED (Call(t, op[u], args[u]) /\ pc'[t] = "body" /\ ~ hit'[t])
    /\ \A t \in Threads :
          (op[t] \in {"bounds", "tile"} /\ ~ hit[t]
                /\ pc[t] \in {"collect", "shutdown", "store"}) =>
              /\ opened[t] = {BandAddress(args[t].sceneid, "5")}
              /\ op[t] = "tile" =>
                    \A i \in 1..Len(Rgb(args[t])) :
                        tasks[t][i].address = BandAddress(args[t].sceneid, Rgb(args[t])[i])

\* two callers of tile with the same arguments have both missed, both opened
\* the reference raster, both had their band worker return, and neither has
\* stored its result yet
C12_Witness ==
    \E t \in Threads : \E u \in Threads \ {t} :
        /\ op[t] = "tile" /\ op[u] = "tile"
        /\ hashkey("tile", args[t]) = hashkey("tile", args[u])
        /\ pc[t] = "store" /\ pc[u] = "store"
        /\ ~ hit[t] /\ ~ hit[u]
        /\ opened[t] # {} /\ opened[u] # {}
        /\ tasks[t][1].st = "ok" /\ tasks[u][1].st = "ok"
        /\ hashkey("tile", args[t]) \notin Keys(cache["tile"])

\* thread t is served from the cache in this step
ServedStep(t) == pc[t] = "idle" /\ pc'[t] = "done" /\ hit'[t]

\* thread t, which missed, leaves the wrapper's store in this step
StoreStep(t) == pc[t] = "store" /\ pc'[t] = "done"

\* C13 as stated: the value stored under a key is never replaced by a
\* different one, and every call that returns gives what the previous call
\* that returned for its key gave.
C13_Orig_AppendOnly ==
    /\ [][\A f \in Functions : \A k \in Keys(cache[f]) \cap Keys(cache'[f]) :
            ValueOf(cache'[f], k) = ValueOf(cache[f], k)]_vars
    /\ [](\A t \in Threads : Returned(t) => sameAsLast[t])

\* C13, amended: a call served from the cache leaves its entry in the cache
\* with the value it had and returns that value; the value under a key
\* changes only in the store of a caller that missed that key, and becomes
\* the value that caller computed; the value under a cached key is the one
\* the latest call that returned for the key gave.
C13_StoredByMissOnly ==
    /\ [][\A t \in Threads :
            LET f == op'[t]
                k == hashkey(f, args'[t])
            IN  ServedStep(t) =>
                    /\ k \in Keys(cache[f]) /\ k \in Keys(cache'[f])
                    /\ ValueOf(cache'[f], k) = ValueOf(cache[f], k)
                    /\ outcome'[t] = Return(ValueOf(cache[f], k))]_vars
    /\ [][\A f \in Functions : \A k \in Keys(cache[f]) \cap Keys(cache'[f]) :
            ValueOf(cache'[f], k) # ValueOf(cache[f], k) =>
                \E t \in Threads :
                    /\ StoreStep(t) /\ ~ hit[t]
                    /\ op[t] = f /\ hashkey(f, args[t]) = k
                    /\ ValueOf(cache'[f], k) = pending[t].val]_vars
    /\ [](\A f \in Functions : \A k \in Keys(cache[f]) :
            k \in OkKeys(f) /\ LastValue(f, k) = ValueOf(cache[f], k))

\* two callers of the same key both missed and returned different values;
\* the cache holds the value of the one that stored last
C13_Witness ==
    \E t \in Threads : \E u \in Threads \ {t} :
        /\ Returned(t) /\ Returned(u) /\ ~ hit[t] /\ ~ hit[u]
        /\ op[t] = op[u]
        /\ hashkey(op[t], args[t]) = hashkey(op[u], args[u])
        /\ outcome[t].val # outcome[u].val
        /\ hashkey(op[u], args[u]) \in Keys(cache[op[u]])
        /\ ValueOf(cache[op[u]], hashkey(op[u], args[u])) = outcome[u].val

\* the failed future that comes first in submission order
FirstFailed(ts) == CHOOSE i \in Failed(ts) : \A j \in Failed(ts) : i <= j

\* C15: a tile call that ends with band workers failed raises the failure of
\* the failed band that comes first in the order the bands were submitted,
\* whichever worker failed first in time; every band before it returned and
\* was yielded.
C15_EarliestBandFailure ==
    \A t \in Threads :
        (op[t] = "tile" /\ Done(t) /\ Failed(tasks[t]) # {}) =>
            /\ Raised(t)
            /\ outcome[t].err = tasks[t][FirstFailed(tasks[t])].res
            /\ Len(out[t]) = FirstFailed(tasks[t]) - 1
            /\ \A i \in 1..(FirstFailed(tasks[t]) - 1) : tasks[t][i].st = "ok"

\* two band workers of a tile call failed, a band between them returned, and
\* the call raised the failure of the earlier one
C15_Witness ==
    \E t \in Threads :
        /\ op[t] = "tile" /\ Raised(t)
        /\ \E i \in Failed(tasks[t]) : \E j \in Failed(tasks[t]) :
              /\ i + 1 < j
              /\ tasks[t][i + 1].st = "ok"
              /\ outcome[t].err = tasks[t][i].res
              /\ outcome[t].err # tasks[t][j].res

\* C16: in a tile call no band worker is submitted before the reference
\* band has been opened and the tile found to overlap the scene's bounds; a
\* call that raised TileOutsideBounds submitted no band worker and opened no
\* asset but the reference band.
C16_CheckBeforeFanOut ==
    \A t \in Threads :
        op[t] = "tile" =>
            /\ pc[t] \in {"body", "check"} => tasks[t] = <<>>
            /\ tasks[t] # <<>> =>
                  /\ opened[t] = {BandAddress(args[t].sceneid, "5")}
                  /\ wgs[t] # NoBox
                  /\ Overlap(Footprint(args[t]), wgs[t])
            /\ RaisedType(t, "TileOutsideBounds") =>
                  /\ tasks[t] = <<>> /\ out[t] = <<>>
                  /\ opened[t] = {BandAddress(args[t].sceneid, "5")}

\* a tile call for a tile outside the scene raised TileOutsideBounds after
\* opening the reference band, with no band worker submitted
C16_Witness ==
    \E t \in Threads :
        /\ op[t] = "tile" /\ RaisedType(t, "TileOutsideBounds")
        /\ opened[t] = {BandAddress(args[t].sceneid, "5")}
        /\ tasks[t] = <<>>

\* thread t's call raises in this step
RaiseStep(t) == pc[t] # "done" /\ pc'[t] = "done" /\ outcome'[t].kind = "raise"

\* thread t enters a call in this step
NewCall(t) == pc[t] = "idle" /\ pc'[t] # "idle"

\* C17: a call that raises leaves every cache as it was, so with one caller
\* the key of a call that raised is not cached; and a call whose key is not
\* cached runs the body, whatever earlier calls with its arguments raised.
C17_FailuresNotMemoized ==
    /\ [][\A t \in Threads : RaiseStep(t) => cache' = cache]_vars
    /\ [][\A t \in Threads :
            (NewCall(t) /\ hashkey(op'[t], args'[t]) \notin Keys(cache[op'[t]]))
                => (pc'[t] = "body" /\ ~ hit'[t])]_vars
    /\ [](\A t \in Threads :
            Raised(t) => /\ ~ hit[t]
                         /\ hashkey(op[t], args[t]) \notin Keys(cache[op[t]]))

\* the caller's second call with the same arguments ran the computation and
\* returned: the first, which had the same key, cannot have returned, or
\* the second would have been served from the cache
C17_Witness ==
    /\ ncalls = 2
    /\ op["t1"] = "tile" /\ args["t1"] = RetryTileArgs
    /\ Returned("t1") /\ ~ hit["t1"]
    /\ tasks["t1"] # <<>>

\* C18: a bounds, metadata or tile call on a well-formed scene id that ran
\* its body does not fail in address resolution: it goes on to open an asset
\* under the scene's storage key, the same key for the three functions.
C18_SameResolver ==
    \A t \in Threads :
        (op[t] \in Functions /\ Done(t) /\ ~ hit[t] /\ WellFormed(args[t].sceneid)) =>
            /\ ~ RaisedType(t, "AttributeError")
            /\ ~ RaisedType(t, "ParseError")
            /\ \E a \in opened[t] : a.prefix = cbers_address(args[t].sceneid)

\* C19: a tile or metadata call that has entered its body eventually
\* returns or raises, with more bands submitted than the pool has workers,
\* provided the threads keep running and every band worker that runs
\* returns or raises.
C19_CallsTerminate ==
    \A t \in Threads :
        (pc[t] \in {"body", "check", "submit", "collect", "cancel", "shutdown", "store"})
            ~> Done(t)

\* a tile call of four bands, one more than its pool has workers, returned
\* the four grids its workers computed
C19_Witness ==
    \E t \in Threads :
        /\ op[t] = "tile" /\ Returned(t) /\ ~ hit[t]
        /\ Len(tasks[t]) > TileWorkers
        /\ \A i \in 1..Len(tasks[t]) : tasks[t][i].st = "ok"

====
